---- MODULE Spec2Model ----
(***************************************************************************)
(* The PRNG lifecycle of libtomcrypt's two stream-cipher bindings,         *)
(* src/prngs/rc4.c (Binding A) and src/prngs/sober128.c (Binding B):       *)
(* start, add_entropy, ready, read, done, export, import on one            *)
(* prng_state, driven by a caller that may issue any call in any order.    *)
(*                                                                         *)
(* Byte arrays are tuples; the C index i is the tuple index i + 1.         *)
(* The stream ciphers themselves (rc4_setup, rc4_keystream, rc4_done,      *)
(* sober128_setup, sober128_setiv, sober128_keystream, sober128_done) are  *)
(* collaborators: RC4 is written out and reproduces the vectors of         *)
(* rc4_test and rc4_prng_test; SOBER-128 is an abstract keyed generator.   *)
(***************************************************************************)
EXTENDS Integers, Sequences, FiniteSets, TLC

VARIABLES alg, prng, phase, last, accum, hist, dmp, cnt, test, thr, lin, twin

vars == <<alg, prng, phase, last, accum, hist, dmp, cnt, test, thr, lin, twin>>

(***************************************************************************)
(* Bounds of the exploration.                                              *)
(***************************************************************************)
MaxGarbage == 1     \* prior contents of the instance memory: patterns 0..MaxGarbage
MaxAdds == 2        \* add_entropy calls that reach the pool
MaxRekeys == 1      \* add_entropy calls that rekey
MaxDraw == 2        \* bytes drawn by read calls
MaxExports == 1     \* export calls that draw keystream
MaxStarts == 1      \* start calls
MaxImports == 1     \* import calls that restart the instance
MaxDones == 1       \* done calls
MaxCalls == 4       \* calls that change the instance

(***************************************************************************)
(* Result codes.                                                           *)
(***************************************************************************)
CRYPT_OK == "CRYPT_OK"
CRYPT_ERROR == "CRYPT_ERROR"
CRYPT_INVALID_ARG == "CRYPT_INVALID_ARG"
CRYPT_BUFFER_OVERFLOW == "CRYPT_BUFFER_OVERFLOW"
CRYPT_ERROR_READPRNG == "CRYPT_ERROR_READPRNG"

\* LTC_ARGCHK(x): a failed argument check makes the function return at once
LTC_ARGCHK_FAIL == CRYPT_INVALID_ARG

\* the code a collaborator returns when it signals an internal fault
FaultCode == "CRYPT_FAULT"

\* which collaborator call of the operation signals a fault, if any
Faults == {"none", "keystream", "setup", "setiv"}

(***************************************************************************)
(* Bytes and byte arrays.                                                  *)
(***************************************************************************)
Arr(f) == f \o <<>>

Zeros(n) == Arr([i \in 1..n |-> 0])

Fill(n, v) == Arr([i \in 1..n |-> v])

MIN(a, b) == IF a < b THEN a ELSE b

\* a ^ b on unsigned char
RECURSIVE XorN(_, _)
XorN(a, b) ==
  IF a = 0 THEN b
  ELSE IF b = 0 THEN a
  ELSE (((a % 2) + (b % 2)) % 2) + 2 * XorN(a \div 2, b \div 2)

\* for (i = lo; i < hi; i++) buf[(base + i) % cap] ^= in[i];
\* the loop is split in halves, the first half evaluated before the second
RECURSIVE xor_loop(_, _, _, _, _, _)
xor_loop(buf, cap, base, in, lo, hi) ==
  IF lo >= hi THEN buf
  ELSE IF lo + 1 = hi
  THEN [buf EXCEPT ![((base + lo) % cap) + 1] = XorN(@, in[lo + 1])]
  ELSE LET mid == (lo + hi) \div 2
           a == xor_loop(buf, cap, base, in, lo, mid)
       IN IF Len(a) = Len(buf) THEN xor_loop(a, cap, base, in, mid, hi) ELSE a

(***************************************************************************)
(* RC4 (collaborator of Binding A).  rc4_state is x, y, buf[256].          *)
(***************************************************************************)
Swap(s, i, j) == [s EXCEPT ![i + 1] = s[j + 1], ![j + 1] = s[i + 1]]

\* one round of the key schedule: y = (y + s[x] + key[x % keylen]) & 255; swap
ksa_step(st, key, keylen, x) ==
  LET y2 == (st.y + st.buf[x + 1] + key[(x % keylen) + 1]) % 256
  IN [y |-> y2, buf |-> Swap(st.buf, x, y2)]

RECURSIVE ksa(_, _, _, _, _)
ksa(st, key, keylen, lo, hi) ==
  IF lo >= hi THEN st
  ELSE IF lo + 1 = hi THEN ksa_step(st, key, keylen, lo)
  ELSE LET mid == (lo + hi) \div 2
           a == ksa(st, key, keylen, lo, mid)
       IN IF a.y \in 0..255 THEN ksa(a, key, keylen, mid, hi) ELSE a

rc4_setup(key, keylen) ==
  [x |-> 0, y |-> 0,
   buf |-> ksa([y |-> 0, buf |-> Arr([i \in 1..256 |-> i - 1])],
               key, keylen, 0, 256).buf]

\* x = (x + 1) & 255; y = (y + s[x]) & 255; swap s[x], s[y]
rc4_step(st) ==
  LET x == (st.x + 1) % 256
      y == (st.y + st.buf[x + 1]) % 256
  IN [x |-> x, y |-> y, buf |-> Swap(st.buf, x, y)]

\* the byte produced after a round: s[(s[x] + s[y]) & 255]
rc4_out(st) == st.buf[((st.buf[st.x + 1] + st.buf[st.y + 1]) % 256) + 1]

\* n bytes of keystream and the state after them
RECURSIVE rc4_keystream(_, _)
rc4_keystream(st, n) ==
  IF n = 0 THEN [st |-> st, out |-> <<>>]
  ELSE IF n = 1
  THEN LET s2 == rc4_step(st) IN [st |-> s2, out |-> <<rc4_out(s2)>>]
  ELSE LET h == n \div 2
           a == rc4_keystream(st, h)
       IN IF a.st.x \in 0..255
          THEN LET b == rc4_keystream(a.st, n - h)
               IN [st |-> b.st, out |-> a.out \o b.out]
          ELSE a

\* rc4_done wipes the state
rc4_done(st) == [x |-> 0, y |-> 0, buf |-> Zeros(256)]

\* the discard stopping after its first block
rc4_drop_once(r, k) == rc4_keystream(r.st, 256)

\* for (i = 0; i < k; i++) rc4_keystream(&s, buf, 256);
RECURSIVE rc4_drop(_, _)
rc4_drop(r, k) ==
  IF k = 0 THEN r
  ELSE LET a == rc4_keystream(r.st, 256)
       IN IF a.st.x \in 0..255 THEN rc4_drop(a, k - 1) ELSE a

(***************************************************************************)
(* SOBER-128 (collaborator of Binding B), as an abstract generator: a key, *)
(* an IV and a position; byte p of the keystream is a fixed function of    *)
(* the three.                                                              *)
(***************************************************************************)
RECURSIVE Digest(_, _)
Digest(k, i) ==
  IF i > Len(k) THEN 0 ELSE ((2 * i + 1) * (k[i] + 1) + 3 * Digest(k, i + 1)) % 256

\* byte p of the keystream of a generator whose key and IV digest to d
sober128_byte(d, p) == (d + 7 * p * p + 11 * p + 1) % 256

sober128_setup(s, key, keylen) ==
  [key |-> SubSeq(key, 1, keylen), iv |-> <<>>, pos |-> 0]

sober128_setiv(s, iv, ivlen) ==
  [s EXCEPT !.iv = SubSeq(iv, 1, ivlen), !.pos = 0]

sober128_keystream(s, n) ==
  LET d == Digest(s.key, 1) + 5 * Digest(s.iv, 1)
  IN [st |-> [s EXCEPT !.pos = @ + n],
      out |-> Arr([i \in 1..n |-> sober128_byte(d, s.pos + i - 1)])]

sober128_done(s) == [key |-> <<>>, iv |-> <<>>, pos |-> 0]

(***************************************************************************)
(* Binding A: src/prngs/rc4.c.  The entropy pool is the cipher state       *)
(* itself: prng->rc4.s.buf is the pool and prng->rc4.s.x the write index.  *)
(* Every operation returns the instance it leaves and its results.         *)
(***************************************************************************)
rc4_prng_start(p) ==
  [prng |-> [p EXCEPT !.ready = FALSE,
                      !.rc4.s.x = 0,
                      !.rc4.s.buf = Zeros(256),
                      !.lock = "free"],
   err |-> CRYPT_OK]

\* rc4_prng_add_entropy wrapping the write index one byte early
rc4_prng_add_entropy_mod_255(in, inlen, p, f) ==
  IF inlen = 0 THEN [prng |-> p, err |-> LTC_ARGCHK_FAIL, buf |-> <<>>]
  ELSE [prng |-> [p EXCEPT !.rc4.s.buf = xor_loop(@, 255, p.rc4.s.x, in, 0, inlen),
                           !.rc4.s.x = @ + inlen],
        err |-> CRYPT_OK, buf |-> <<>>]

rc4_prng_add_entropy(in, inlen, p, f) ==
  IF inlen = 0 THEN [prng |-> p, err |-> LTC_ARGCHK_FAIL, buf |-> <<>>]
  ELSE IF p.ready
  THEN IF f = "keystream" THEN [prng |-> p, err |-> FaultCode, buf |-> <<>>]
       ELSE LET ks == rc4_keystream(p.rc4.s, 256)
                buf == xor_loop(ks.out, 256, 0, in, 0, inlen)
            IN IF f = "setup"
               THEN [prng |-> [p EXCEPT !.rc4.s = ks.st], err |-> FaultCode, buf |-> buf]
               ELSE LET d == rc4_drop([st |-> rc4_setup(buf, 256), out |-> buf], 12)
                    IN [prng |-> [p EXCEPT !.rc4.s = d.st], err |-> CRYPT_OK, buf |-> d.out]
  ELSE [prng |-> [p EXCEPT !.rc4.s.buf = xor_loop(@, 256, p.rc4.s.x, in, 0, inlen),
                           !.rc4.s.x = @ + inlen],
        err |-> CRYPT_OK, buf |-> <<>>]

\* rc4_prng_ready with the floor one byte too low
rc4_prng_ready_low_floor(p, f) ==
  IF p.ready THEN [prng |-> p, err |-> CRYPT_OK]
  ELSE LET len == MIN(p.rc4.s.x, 256)
       IN IF len < 4 THEN [prng |-> p, err |-> CRYPT_ERROR]
          ELSE LET buf == SubSeq(p.rc4.s.buf, 1, len)
                   d == rc4_drop([st |-> rc4_setup(buf, len), out |-> buf], 12)
               IN [prng |-> [p EXCEPT !.rc4.s = d.st, !.ready = TRUE], err |-> CRYPT_OK]

\* rc4_prng_ready forgetting the accumulated bytes when it fails
rc4_prng_ready_fail_resets(p, f) ==
  IF p.ready THEN [prng |-> p, err |-> CRYPT_OK]
  ELSE LET len == MIN(p.rc4.s.x, 256)
       IN IF len < 5 THEN [prng |-> [p EXCEPT !.rc4.s.x = 0], err |-> CRYPT_ERROR]
          ELSE IF f = "setup" THEN [prng |-> p, err |-> FaultCode]
          ELSE LET buf == SubSeq(p.rc4.s.buf, 1, len)
                   d == rc4_drop([st |-> rc4_setup(buf, len), out |-> buf], 12)
               IN [prng |-> [p EXCEPT !.rc4.s = d.st, !.ready = TRUE], err |-> CRYPT_OK]

\* rc4_prng_ready without the discard of the first 3072 bytes
rc4_prng_ready_no_discard(p, f) ==
  IF p.ready THEN [prng |-> p, err |-> CRYPT_OK]
  ELSE LET len == MIN(p.rc4.s.x, 256)
       IN IF len < 5 THEN [prng |-> p, err |-> CRYPT_ERROR]
          ELSE IF f = "setup" THEN [prng |-> p, err |-> FaultCode]
          ELSE LET buf == SubSeq(p.rc4.s.buf, 1, len)
               IN [prng |-> [p EXCEPT !.rc4.s = rc4_setup(buf, len), !.ready = TRUE],
                   err |-> CRYPT_OK]

rc4_prng_ready(p, f) ==
  IF p.ready THEN [prng |-> p, err |-> CRYPT_OK]
  ELSE LET len == MIN(p.rc4.s.x, 256)
       IN IF len < 5 THEN [prng |-> p, err |-> CRYPT_ERROR]
          ELSE IF f = "setup" THEN [prng |-> p, err |-> FaultCode]
          ELSE LET buf == SubSeq(p.rc4.s.buf, 1, len)
                   d == rc4_drop([st |-> rc4_setup(buf, len), out |-> buf], 12)
               IN [prng |-> [p EXCEPT !.rc4.s = d.st, !.ready = TRUE], err |-> CRYPT_OK]

\* rc4_prng_read drawing from a copy of the cipher state
rc4_prng_read_copy(outlen, p, f) ==
  IF outlen = 0 THEN [prng |-> p, n |-> 0, out |-> <<>>]
  ELSE IF f = "keystream" THEN [prng |-> p, n |-> 0, out |-> <<>>]
  ELSE [prng |-> p, n |-> outlen, out |-> rc4_keystream(p.rc4.s, outlen).out]

rc4_prng_read(outlen, p, f) ==
  IF outlen = 0 THEN [prng |-> p, n |-> 0, out |-> <<>>]
  ELSE IF f = "keystream" THEN [prng |-> p, n |-> 0, out |-> <<>>]
  ELSE LET ks == rc4_keystream(p.rc4.s, outlen)
       IN [prng |-> [p EXCEPT !.rc4.s = ks.st], n |-> outlen, out |-> ks.out]

rc4_prng_done(p) ==
  [prng |-> [p EXCEPT !.ready = FALSE, !.rc4.s = rc4_done(@)], err |-> CRYPT_OK]

\* rc4_prng_export reading before it looks at the capacity
rc4_prng_export_late_check(outlen, p, f) ==
  LET len == 32
      r == rc4_prng_read(len, p, f)
  IN IF outlen < len
     THEN [prng |-> r.prng, err |-> CRYPT_BUFFER_OVERFLOW, outlen |-> len, out |-> <<>>]
     ELSE IF r.n # len
     THEN [prng |-> r.prng, err |-> CRYPT_ERROR_READPRNG, outlen |-> outlen, out |-> r.out]
     ELSE [prng |-> r.prng, err |-> CRYPT_OK, outlen |-> len, out |-> r.out]

rc4_prng_export(outlen, p, f) ==
  LET len == 32
  IN IF outlen < len
     THEN [prng |-> p, err |-> CRYPT_BUFFER_OVERFLOW, outlen |-> len, out |-> <<>>]
     ELSE LET r == rc4_prng_read(len, p, f)
          IN IF r.n # len
             THEN [prng |-> r.prng, err |-> CRYPT_ERROR_READPRNG,
                   outlen |-> outlen, out |-> r.out]
             ELSE [prng |-> r.prng, err |-> CRYPT_OK, outlen |-> len, out |-> r.out]

\* rc4_prng_import restarting the instance before it looks at the length
rc4_prng_import_start_first(in, inlen, p) ==
  IF inlen < 32 THEN [prng |-> rc4_prng_start(p).prng, err |-> LTC_ARGCHK_FAIL]
  ELSE LET a == rc4_prng_add_entropy(in, inlen, rc4_prng_start(p).prng, "none")
       IN [prng |-> a.prng, err |-> a.err]

rc4_prng_import(in, inlen, p) ==
  IF inlen < 32 THEN [prng |-> p, err |-> LTC_ARGCHK_FAIL]
  ELSE LET a == rc4_prng_add_entropy(in, inlen, rc4_prng_start(p).prng, "none")
       IN [prng |-> a.prng, err |-> a.err]

(***************************************************************************)
(* Binding B: src/prngs/sober128.c.  The pool prng->sober128.ent and its   *)
(* index prng->sober128.idx lie next to the cipher state prng->sober128.s. *)
(***************************************************************************)
sober128_prng_start(p) ==
  [prng |-> [p EXCEPT !.ready = FALSE,
                      !.sober128.ent = Zeros(40),
                      !.sober128.idx = 0,
                      !.lock = "free"],
   err |-> CRYPT_OK]

sober128_prng_add_entropy(in, inlen, p, f) ==
  IF inlen = 0 THEN [prng |-> p, err |-> LTC_ARGCHK_FAIL, buf |-> <<>>]
  ELSE IF p.ready
  THEN IF f = "keystream" THEN [prng |-> p, err |-> FaultCode, buf |-> <<>>]
       ELSE LET ks == sober128_keystream(p.sober128.s, 40)
                buf == xor_loop(ks.out, 40, 0, in, 0, inlen)
                s1 == sober128_setup(ks.st, buf, 32)
                s2 == sober128_setiv(s1, SubSeq(buf, 33, 40), 8)
            IN IF f = "setup"
               THEN [prng |-> [p EXCEPT !.sober128.s = ks.st], err |-> FaultCode, buf |-> buf]
               ELSE IF f = "setiv"
               THEN [prng |-> [p EXCEPT !.sober128.s = s1], err |-> FaultCode, buf |-> buf]
               ELSE [prng |-> [p EXCEPT !.sober128.s = s2], err |-> CRYPT_OK,
                     buf |-> Zeros(40)]
  ELSE [prng |-> [p EXCEPT !.sober128.ent = xor_loop(@, 40, p.sober128.idx, in, 0, inlen),
                           !.sober128.idx = @ + inlen],
        err |-> CRYPT_OK, buf |-> <<>>]

\* sober128_prng_ready without the early return of a ready instance
sober128_prng_ready_always(p, f) ==
  LET s1 == sober128_setup(p.sober128.s, p.sober128.ent, 32)
      s2 == sober128_setiv(s1, SubSeq(p.sober128.ent, 33, 40), 8)
  IN IF f = "setup" THEN [prng |-> p, err |-> FaultCode]
     ELSE IF f = "setiv"
     THEN [prng |-> [p EXCEPT !.sober128.s = s1], err |-> FaultCode]
     ELSE [prng |-> [p EXCEPT !.sober128.s = s2,
                              !.sober128.ent = Zeros(40),
                              !.sober128.idx = 0,
                              !.ready = TRUE],
           err |-> CRYPT_OK]

sober128_prng_ready(p, f) ==
  IF p.ready THEN [prng |-> p, err |-> CRYPT_OK]
  ELSE LET s1 == sober128_setup(p.sober128.s, p.sober128.ent, 32)
           s2 == sober128_setiv(s1, SubSeq(p.sober128.ent, 33, 40), 8)
       IN IF f = "setup" THEN [prng |-> p, err |-> FaultCode]
          ELSE IF f = "setiv"
          THEN [prng |-> [p EXCEPT !.sober128.s = s1], err |-> FaultCode]
          ELSE [prng |-> [p EXCEPT !.sober128.s = s2,
                                   !.sober128.ent = Zeros(40),
                                   !.sober128.idx = 0,
                                   !.ready = TRUE],
                err |-> CRYPT_OK]

sober128_prng_read(outlen, p, f) ==
  IF outlen = 0 THEN [prng |-> p, n |-> 0, out |-> <<>>]
  ELSE IF f = "keystream" THEN [prng |-> p, n |-> 0, out |-> <<>>]
  ELSE LET ks == sober128_keystream(p.sober128.s, outlen)
       IN [prng |-> [p EXCEPT !.sober128.s = ks.st], n |-> outlen, out |-> ks.out]

sober128_prng_done(p) ==
  [prng |-> [p EXCEPT !.ready = FALSE, !.sober128.s = sober128_done(@)], err |-> CRYPT_OK]

\* sober128_prng_export with the export size of the rc4 binding
sober128_prng_export_32(outlen, p, f) ==
  LET len == 32
  IN IF outlen < len
     THEN [prng |-> p, err |-> CRYPT_BUFFER_OVERFLOW, outlen |-> len, out |-> <<>>]
     ELSE LET r == sober128_prng_read(len, p, f)
          IN IF r.n # len
             THEN [prng |-> r.prng, err |-> CRYPT_ERROR_READPRNG,
                   outlen |-> outlen, out |-> r.out]
             ELSE [prng |-> r.prng, err |-> CRYPT_OK, outlen |-> len, out |-> r.out]

sober128_prng_export(outlen, p, f) ==
  LET len == 40
  IN IF outlen < len
     THEN [prng |-> p, err |-> CRYPT_BUFFER_OVERFLOW, outlen |-> len, out |-> <<>>]
     ELSE LET r == sober128_prng_read(len, p, f)
          IN IF r.n # len
             THEN [prng |-> r.prng, err |-> CRYPT_ERROR_READPRNG,
                   outlen |-> outlen, out |-> r.out]
             ELSE [prng |-> r.prng, err |-> CRYPT_OK, outlen |-> len, out |-> r.out]

\* sober128_prng_import without the restart
sober128_prng_import_no_start(in, inlen, p) ==
  IF inlen < 40 THEN [prng |-> p, err |-> LTC_ARGCHK_FAIL]
  ELSE LET a == sober128_prng_add_entropy(in, inlen, p, "none")
       IN [prng |-> a.prng, err |-> a.err]

sober128_prng_import(in, inlen, p) ==
  IF inlen < 40 THEN [prng |-> p, err |-> LTC_ARGCHK_FAIL]
  ELSE LET a == sober128_prng_add_entropy(in, inlen, sober128_prng_start(p).prng, "none")
       IN [prng |-> a.prng, err |-> a.err]

(***************************************************************************)
(* The descriptors rc4_prng_desc and sober128_prng_desc: the name, the     *)
(* export size and the seven operations of each binding.                   *)
(***************************************************************************)
Algs == {"rc4", "sober128"}

export_size(a) == IF a = "rc4" THEN 32 ELSE 40

prng_start(a, p) ==
  IF a = "rc4" THEN rc4_prng_start(p) ELSE sober128_prng_start(p)

prng_add_entropy(a, in, inlen, p, f) ==
  IF a = "rc4" THEN rc4_prng_add_entropy(in, inlen, p, f)
  ELSE sober128_prng_add_entropy(in, inlen, p, f)

prng_ready(a, p, f) ==
  IF a = "rc4" THEN rc4_prng_ready(p, f) ELSE sober128_prng_ready(p, f)

prng_read(a, outlen, p, f) ==
  IF a = "rc4" THEN rc4_prng_read(outlen, p, f) ELSE sober128_prng_read(outlen, p, f)

prng_done(a, p) ==
  IF a = "rc4" THEN rc4_prng_done(p) ELSE sober128_prng_done(p)

prng_export(a, outlen, p, f) ==
  IF a = "rc4" THEN rc4_prng_export(outlen, p, f) ELSE sober128_prng_export(outlen, p, f)

prng_import(a, in, inlen, p) ==
  IF a = "rc4" THEN rc4_prng_import(in, inlen, p) ELSE sober128_prng_import(in, inlen, p)

\* the cipher state of the instance
gen(a, p) == IF a = "rc4" THEN p.rc4.s ELSE p.sober128.s

\* the entropy pool of the instance and its write index
pool(a, p) == IF a = "rc4" THEN p.rc4.s.buf ELSE p.sober128.ent

pool_idx(a, p) == IF a = "rc4" THEN p.rc4.s.x ELSE p.sober128.idx

pool_cap(a) == IF a = "rc4" THEN 256 ELSE 40

(***************************************************************************)
(* The caller.  en is the entropy of the self-tests, bytes 0x01..0x32; the *)
(* caller hands in prefixes of it, or a blob it exported earlier.          *)
(***************************************************************************)
en == Arr([i \in 1..50 |-> i])

\* n bytes of entropy: en, repeated when n is larger than sizeof(en)
EnBytes(n) == Arr([i \in 1..n |-> en[((i - 1) % 50) + 1]])

\* lengths handed to add_entropy: none, below and up to the activation size
AddLens(a) == IF a = "rc4" THEN {0, 4, 5} ELSE {0, 1, 40}

Entropy(lens) == {EnBytes(n) : n \in lens}

\* a prng_state before start: whatever the memory held
Uninit(a, g) ==
  IF a = "rc4"
  THEN [ready |-> (g % 2 = 1), lock |-> "uninit",
        rc4 |-> [s |-> [x |-> 3 * g, y |-> 7 * g, buf |-> Fill(256, g)]]]
  ELSE [ready |-> (g % 2 = 1), lock |-> "uninit",
        sober128 |-> [s |-> [key |-> Fill(32, g), iv |-> Fill(8, g), pos |-> g],
                      ent |-> Fill(40, g), idx |-> g]]

NoCall ==
  [op |-> "none", from |-> "-", in |-> <<>>, arg |-> 0, fault |-> "none", err |-> CRYPT_OK,
   ret |-> 0, out |-> <<>>, outlen |-> 0, buf |-> <<>>]

NoDump == [blob |-> <<>>, after |-> <<>>]

\* what was handed to add_entropy since start, and whether a ready has failed since
NoHist == [fed |-> <<>>, failed |-> FALSE]

Init ==
  /\ alg \in Algs
  /\ \E g \in 0..MaxGarbage : prng = Uninit(alg, g)
  /\ phase = "Uninitialized"
  /\ last = NoCall
  /\ accum = -1
  /\ hist = NoHist
  /\ thr = <<>>
  /\ lin = <<>>
  /\ twin = <<>>
  /\ dmp = NoDump
  /\ cnt = [adds |-> 0, rekeys |-> 0, draw |-> 0, exports |-> 0, starts |-> 0,
            imports |-> 0, dones |-> 0, calls |-> 0]
  /\ test = [pc |-> 0, enlen |-> 0]

\* the collaborator calls of a binding that can signal a fault
FaultsOf(a) == IF a = "rc4" THEN {"none", "keystream", "setup"} ELSE Faults

\* the caller may make one more call that changes the instance
MayCall == last = NoCall /\ cnt.calls < MaxCalls

\* the caller may make a call that is rejected or fails without effect
MayTry == last = NoCall /\ phase # "Uninitialized"

Start ==
  /\ MayCall /\ cnt.starts < MaxStarts
  /\ \E r \in {prng_start(alg, prng)} :
        /\ prng' = r.prng
        /\ last' = [NoCall EXCEPT !.op = "start", !.from = phase, !.err = r.err]
  /\ phase' = "Accumulating"
  /\ accum' = 0
  /\ hist' = NoHist
  /\ cnt' = [cnt EXCEPT !.starts = @ + 1, !.calls = @ + 1]
  /\ UNCHANGED <<twin, thr, lin, test, alg, dmp>>

\* add_entropy on an instance that is not ready: the pool absorbs the input
AddEntropyPool ==
  /\ MayCall /\ phase # "Uninitialized" /\ ~prng.ready /\ cnt.adds < MaxAdds
  /\ \E in \in Entropy(AddLens(alg) \ {0}) :
       \E r \in {prng_add_entropy(alg, in, Len(in), prng, "none")} :
          /\ prng' = r.prng
          /\ last' = [NoCall EXCEPT !.op = "add_entropy", !.from = phase, !.in = in,
                                    !.err = r.err, !.buf = r.buf]
          /\ accum' = IF accum >= 0 THEN accum + Len(in) ELSE accum
          /\ hist' = IF accum >= 0 THEN [hist EXCEPT !.fed = @ \o in] ELSE hist
  /\ cnt' = [cnt EXCEPT !.adds = @ + 1, !.calls = @ + 1]
  /\ UNCHANGED <<twin, thr, lin, test, alg, phase, dmp>>

\* add_entropy on a ready instance: rekey, or a fault of setup or setiv
AddEntropyRekey ==
  /\ MayCall /\ phase # "Uninitialized" /\ prng.ready /\ cnt.rekeys < MaxRekeys
  /\ \E in \in Entropy(AddLens(alg) \ {0}), f \in FaultsOf(alg) \ {"keystream"} :
       \E r \in {prng_add_entropy(alg, in, Len(in), prng, f)} :
          /\ prng' = r.prng
          /\ last' = [NoCall EXCEPT !.op = "add_entropy", !.from = phase, !.in = in, !.fault = f,
                                    !.err = r.err, !.buf = r.buf]
  /\ cnt' = [cnt EXCEPT !.rekeys = @ + 1, !.calls = @ + 1]
  /\ UNCHANGED <<twin, thr, lin, test, alg, phase, accum, hist, dmp>>

\* add_entropy that is rejected (no input) or whose first keystream draw faults
AddEntropyFail ==
  /\ MayTry
  /\ \E in \in Entropy(AddLens(alg)), f \in {"none", "keystream"} :
       /\ (f = "none") = (Len(in) = 0)
       /\ f = "keystream" => prng.ready
       /\ \E r \in {prng_add_entropy(alg, in, Len(in), prng, f)} :
             /\ prng' = r.prng
             /\ last' = [NoCall EXCEPT !.op = "add_entropy", !.from = phase, !.in = in, !.fault = f,
                                       !.err = r.err, !.buf = r.buf]
  /\ UNCHANGED <<twin, thr, lin, test, alg, phase, accum, hist, dmp, cnt>>

\* ready on an instance that is not ready
Ready ==
  /\ MayCall /\ phase # "Uninitialized" /\ ~prng.ready
  /\ \E f \in FaultsOf(alg) \ {"keystream"} :
       \E r \in {prng_ready(alg, prng, f)} :
          /\ prng' = r.prng
          /\ last' = [NoCall EXCEPT !.op = "ready", !.from = phase, !.fault = f, !.err = r.err]
          /\ phase' = IF r.err = CRYPT_OK /\ phase = "Accumulating"
                      THEN "Active" ELSE phase
          /\ cnt' = IF r.prng # prng THEN [cnt EXCEPT !.calls = @ + 1] ELSE cnt
          /\ hist' = IF r.err = CRYPT_ERROR THEN [hist EXCEPT !.failed = TRUE] ELSE hist
  /\ UNCHANGED <<twin, thr, lin, test, alg, accum, dmp>>

\* ready on an instance that is ready already
ReadyAgain ==
  /\ MayTry /\ prng.ready
  /\ \E r \in {prng_ready(alg, prng, "none")} :
        /\ prng' = r.prng
        /\ last' = [NoCall EXCEPT !.op = "ready", !.from = phase, !.err = r.err]
  /\ UNCHANGED <<twin, thr, lin, test, alg, phase, accum, hist, dmp, cnt>>

\* read that draws keystream
Read ==
  /\ MayCall /\ phase # "Uninitialized"
  /\ \E n \in 1..(MaxDraw - cnt.draw) :
       \E r \in {prng_read(alg, n, prng, "none")} :
          /\ prng' = r.prng
          /\ last' = [NoCall EXCEPT !.op = "read", !.from = phase, !.arg = n, !.err = "-",
                                    !.ret = r.n, !.out = r.out]
          /\ accum' = IF ~prng.ready THEN -1 ELSE accum
          /\ hist' = IF ~prng.ready THEN NoHist ELSE hist
          /\ cnt' = [cnt EXCEPT !.draw = @ + n, !.calls = @ + 1]
  /\ UNCHANGED <<twin, thr, lin, test, alg, phase, dmp>>

\* read of no byte, or read whose keystream draw faults
ReadFail ==
  /\ MayTry
  /\ \E n \in 0..1 :
       LET f == IF n = 0 THEN "none" ELSE "keystream"
           r == prng_read(alg, n, prng, f)
       IN /\ prng' = r.prng
          /\ last' = [NoCall EXCEPT !.op = "read", !.from = phase, !.arg = n, !.fault = f, !.err = "-",
                                    !.ret = r.n, !.out = r.out]
  /\ UNCHANGED <<twin, thr, lin, test, alg, phase, accum, hist, dmp, cnt>>

Done ==
  /\ MayCall /\ phase # "Uninitialized" /\ cnt.dones < MaxDones
  /\ \E r \in {prng_done(alg, prng)} :
        /\ prng' = r.prng
        /\ last' = [NoCall EXCEPT !.op = "done", !.from = phase, !.err = r.err]
  /\ phase' = "Terminated"
  /\ accum' = -1
  /\ hist' = NoHist
  /\ cnt' = [cnt EXCEPT !.dones = @ + 1, !.calls = @ + 1]
  /\ UNCHANGED <<twin, thr, lin, test, alg, dmp>>

\* export into a destination that is large enough
Export ==
  /\ MayCall /\ phase # "Uninitialized" /\ cnt.exports < MaxExports
  /\ \E cap \in {export_size(alg), export_size(alg) + 1} :
       \E r \in {prng_export(alg, cap, prng, "none")} :
          /\ prng' = r.prng
          /\ last' = [NoCall EXCEPT !.op = "export", !.from = phase, !.arg = cap, !.err = r.err,
                                    !.out = r.out, !.outlen = r.outlen]
          /\ dmp' = [blob |-> r.out, after |-> gen(alg, r.prng)]
          /\ accum' = IF ~prng.ready THEN -1 ELSE accum
          /\ hist' = IF ~prng.ready THEN NoHist ELSE hist
  /\ cnt' = [cnt EXCEPT !.exports = @ + 1, !.calls = @ + 1]
  /\ UNCHANGED <<twin, thr, lin, test, alg, phase>>

\* export into a destination that is too small, or whose keystream draw faults
ExportFail ==
  /\ MayTry
  /\ \E cap \in {0, export_size(alg) - 1, export_size(alg)} :
       LET f == IF cap < export_size(alg) THEN "none" ELSE "keystream"
           r == prng_export(alg, cap, prng, f)
       IN /\ prng' = r.prng
          /\ last' = [NoCall EXCEPT !.op = "export", !.from = phase, !.arg = cap, !.fault = f,
                                    !.err = r.err, !.out = r.out, !.outlen = r.outlen]
  /\ UNCHANGED <<twin, thr, lin, test, alg, phase, accum, hist, dmp, cnt>>

\* import of a blob that is long enough
Import ==
  /\ MayCall /\ cnt.imports < MaxImports
  /\ \E in \in Entropy({export_size(alg), pool_cap(alg) + 10}) :
       \E r \in {prng_import(alg, in, Len(in), prng)} :
          /\ prng' = r.prng
          /\ last' = [NoCall EXCEPT !.op = "import", !.from = phase, !.in = in, !.err = r.err]
          /\ accum' = Len(in)
          /\ hist' = [fed |-> in, failed |-> FALSE]
  /\ phase' = "Accumulating"
  /\ cnt' = [cnt EXCEPT !.imports = @ + 1, !.calls = @ + 1]
  /\ UNCHANGED <<twin, thr, lin, test, alg, dmp>>

\* import of a blob that is too short
ImportFail ==
  /\ MayTry
  /\ \E in \in Entropy({export_size(alg) - 1}) :
       \E r \in {prng_import(alg, in, Len(in), prng)} :
          /\ prng' = r.prng
          /\ last' = [NoCall EXCEPT !.op = "import", !.from = phase, !.in = in, !.err = r.err]
  /\ UNCHANGED <<twin, thr, lin, test, alg, phase, accum, hist, dmp, cnt>>

\* the caller has taken the results of the call
Return ==
  /\ last # NoCall
  /\ last' = NoCall
  /\ UNCHANGED <<twin, thr, lin, test, alg, prng, phase, accum, hist, dmp, cnt>>

Next ==
  \/ Start \/ AddEntropyPool \/ AddEntropyRekey \/ AddEntropyFail
  \/ Ready \/ ReadyAgain \/ Read \/ ReadFail \/ Done
  \/ Export \/ ExportFail \/ Import \/ ImportFail \/ Return

Spec == Init /\ [][Next]_vars

TypeOK ==
  /\ alg \in Algs
  /\ prng.ready \in BOOLEAN
  /\ phase \in {"Uninitialized", "Accumulating", "Active", "Terminated"}

(***************************************************************************)
(* The self-tests rc4_prng_test and sober128_prng_test: one fixed sequence *)
(* of calls on one prng_state, the exported blob dmp imported back into    *)
(* it.  test.pc is the next call of the sequence; the entropy is the first *)
(* test.enlen bytes of en (the self-tests hand in all 50).                 *)
(***************************************************************************)
Call(op, n) == [op |-> op, n |-> n]

rc4_prng_test ==
  << Call("start", 0), Call("add_entropy", 0), Call("ready", 0),
     Call("read", 10), Call("read", 500),
     Call("export", 500), Call("read", 500), Call("read", 10), Call("done", 0),
     Call("import", 0), Call("ready", 0), Call("read", 500), Call("read", 10),
     Call("done", 0) >>

sober128_prng_test ==
  << Call("start", 0), Call("add_entropy", 0), Call("ready", 0),
     Call("read", 10), Call("read", 500), Call("add_entropy", 0), Call("read", 500),
     Call("export", 300), Call("read", 500), Call("read", 10), Call("done", 0),
     Call("import", 0), Call("ready", 0), Call("read", 500), Call("read", 10),
     Call("done", 0) >>

prng_test(a) == IF a = "rc4" THEN rc4_prng_test ELSE sober128_prng_test

\* the entropy lengths the self-test is run with
TestLens == {8, 32, 40, 50}

\* the next call of the self-test is op
TestAt(op) ==
  /\ test.pc + 1 <= Len(prng_test(alg))
  /\ prng_test(alg)[test.pc + 1].op = op

TestArg == prng_test(alg)[test.pc + 1].n

TestInit ==
  /\ alg \in Algs
  /\ \E g \in 0..MaxGarbage : prng = Uninit(alg, g)
  /\ phase = "Uninitialized"
  /\ last = NoCall
  /\ accum = -1
  /\ hist = NoHist
  /\ thr = <<>>
  /\ lin = <<>>
  /\ twin = <<>>
  /\ dmp = NoDump
  /\ cnt = [adds |-> 0, rekeys |-> 0, draw |-> 0, exports |-> 0, starts |-> 0,
            imports |-> 0, dones |-> 0, calls |-> 0]
  /\ \E n \in TestLens : test = [pc |-> 0, enlen |-> n]

TestStart ==
  /\ TestAt("start")
  /\ \E r \in {prng_start(alg, prng)} :
        /\ prng' = r.prng
        /\ last' = [NoCall EXCEPT !.op = "start", !.from = phase, !.err = r.err]
  /\ phase' = "Accumulating"
  /\ test' = [test EXCEPT !.pc = @ + 1]
  /\ UNCHANGED <<twin, thr, lin, alg, accum, hist, dmp, cnt>>

TestAddEntropy ==
  /\ TestAt("add_entropy")
  /\ LET in == EnBytes(test.enlen)
         r == prng_add_entropy(alg, in, Len(in), prng, "none")
     IN /\ prng' = r.prng
        /\ last' = [NoCall EXCEPT !.op = "add_entropy", !.from = phase, !.in = in,
                                  !.err = r.err, !.buf = r.buf]
  /\ test' = [test EXCEPT !.pc = @ + 1]
  /\ UNCHANGED <<twin, thr, lin, alg, phase, accum, hist, dmp, cnt>>

TestReady ==
  /\ TestAt("ready")
  /\ \E r \in {prng_ready(alg, prng, "none")} :
        /\ prng' = r.prng
        /\ last' = [NoCall EXCEPT !.op = "ready", !.from = phase, !.err = r.err]
        /\ phase' = IF r.err = CRYPT_OK /\ phase = "Accumulating" THEN "Active" ELSE phase
  /\ test' = [test EXCEPT !.pc = @ + 1]
  /\ UNCHANGED <<twin, thr, lin, alg, accum, hist, dmp, cnt>>

TestRead ==
  /\ TestAt("read")
  /\ \E r \in {prng_read(alg, TestArg, prng, "none")} :
        /\ prng' = r.prng
        /\ last' = [NoCall EXCEPT !.op = "read", !.from = phase, !.arg = TestArg,
                                  !.err = "-", !.ret = r.n, !.out = r.out]
  /\ test' = [test EXCEPT !.pc = @ + 1]
  /\ UNCHANGED <<twin, thr, lin, alg, phase, accum, hist, dmp, cnt>>

TestExport ==
  /\ TestAt("export")
  /\ \E r \in {prng_export(alg, TestArg, prng, "none")} :
        /\ prng' = r.prng
        /\ last' = [NoCall EXCEPT !.op = "export", !.from = phase, !.arg = TestArg,
                                  !.err = r.err, !.out = r.out, !.outlen = r.outlen]
        /\ dmp' = [blob |-> SubSeq(r.out, 1, r.outlen), after |-> gen(alg, r.prng)]
  /\ test' = [test EXCEPT !.pc = @ + 1]
  /\ UNCHANGED <<twin, thr, lin, alg, phase, accum, hist, cnt>>

TestDone ==
  /\ TestAt("done")
  /\ \E r \in {prng_done(alg, prng)} :
        /\ prng' = r.prng
        /\ last' = [NoCall EXCEPT !.op = "done", !.from = phase, !.err = r.err]
  /\ phase' = "Terminated"
  /\ test' = [test EXCEPT !.pc = @ + 1]
  /\ UNCHANGED <<twin, thr, lin, alg, accum, hist, dmp, cnt>>

TestImport ==
  /\ TestAt("import")
  /\ \E r \in {prng_import(alg, dmp.blob, Len(dmp.blob), prng)} :
        /\ prng' = r.prng
        /\ last' = [NoCall EXCEPT !.op = "import", !.from = phase, !.in = dmp.blob,
                                  !.err = r.err]
        /\ phase' = IF r.err = CRYPT_OK THEN "Accumulating" ELSE phase
  /\ test' = [test EXCEPT !.pc = @ + 1]
  /\ UNCHANGED <<twin, thr, lin, alg, accum, hist, dmp, cnt>>

TestNext ==
  \/ TestStart \/ TestAddEntropy \/ TestReady \/ TestRead
  \/ TestExport \/ TestDone \/ TestImport

TestSpec == TestInit /\ [][TestNext]_vars

(***************************************************************************)
(* Steps of the caller, for the properties below.                          *)
(***************************************************************************)
\* this step is a call of op
Calls(op) == last.op = "none" /\ last'.op = op

\* the accumulated byte count is known: since start only add_entropy ran
OnlyAdds == accum >= 0

(***************************************************************************)
(* The next n keystream bytes of a generator, drawn one byte at a time.    *)
(***************************************************************************)
draw1(a, g) == IF a = "rc4" THEN rc4_keystream(g, 1) ELSE sober128_keystream(g, 1)

RECURSIVE next_bytes(_, _, _)
next_bytes(a, g, n) ==
  IF n = 0 THEN [st |-> g, out |-> <<>>]
  ELSE IF n = 1 THEN draw1(a, g)
  ELSE LET h == n \div 2
           d == next_bytes(a, g, h)
       IN IF Len(d.out) = h
          THEN LET e == next_bytes(a, d.st, n - h)
               IN [st |-> e.st, out |-> d.out \o e.out]
          ELSE d

NextBytes(a, g, n) == next_bytes(a, g, n)

\* the instance p with its generator replaced by g
with_gen(a, p, g) ==
  IF a = "rc4" THEN [p EXCEPT !.rc4.s = g] ELSE [p EXCEPT !.sober128.s = g]

(***************************************************************************)
(* C1: Binding A, activation gate.  After start and add_entropy calls      *)
(* only, ready on an instance that is not ready returns CRYPT_ERROR and    *)
(* leaves ready false when fewer than 5 bytes were accumulated, and        *)
(* returns CRYPT_OK and sets ready when 5 or more were (rc4_setup not      *)
(* faulting).                                                              *)
(***************************************************************************)
C1_Rc4ActivationGate ==
  [][(alg = "rc4" /\ Calls("ready") /\ ~prng.ready /\ OnlyAdds /\ last'.fault = "none")
       => IF accum < 5
          THEN last'.err = CRYPT_ERROR /\ ~prng'.ready /\ prng' = prng
          ELSE last'.err = CRYPT_OK /\ prng'.ready]_vars

C1_Witness ==
  /\ alg = "rc4" /\ last.op = "ready" /\ last.from = "Accumulating"
  /\ accum = 4 /\ last.err = CRYPT_ERROR /\ ~prng.ready

C1_WitnessOk ==
  /\ alg = "rc4" /\ last.op = "ready" /\ last.from = "Accumulating"
  /\ accum = 5 /\ last.err = CRYPT_OK /\ prng.ready

(***************************************************************************)
(* C2: Binding B, activation gate.  After start and add_entropy calls      *)
(* only, ready on an instance that is not ready fails and leaves ready     *)
(* false when fewer than 40 bytes were accumulated.                        *)
(***************************************************************************)
C2_SoberActivationGate ==
  (alg = "sober128" /\ last.op = "ready" /\ last.from = "Accumulating"
     /\ last.fault = "none" /\ OnlyAdds /\ accum < 40)
    => (last.err # CRYPT_OK /\ ~prng.ready)

(***************************************************************************)
(* C3: read on an Active instance.  A read of no byte returns 0 and leaves *)
(* the instance alone; a read of n > 0 bytes whose generator does not      *)
(* fault returns n, hands out the next n keystream bytes and leaves the    *)
(* generator n bytes further, so that read(a) then read(n - a) yields the  *)
(* same bytes and the same generator; a read whose generator faults        *)
(* returns 0.                                                              *)
(***************************************************************************)
ReadSplits(p, n, out, q) ==
  \A a \in 0..n :
    LET r1 == prng_read(alg, a, p, "none")
        r2 == prng_read(alg, n - a, r1.prng, "none")
    IN r1.n = a /\ r2.n = n - a /\ r1.out \o r2.out = out /\ r2.prng = q

C3_ReadOnActive ==
  [][(Calls("read") /\ phase = "Active" /\ prng.ready)
       => LET n == last'.arg
              nb == NextBytes(alg, gen(alg, prng), n)
          IN IF n = 0 THEN last'.ret = 0 /\ prng' = prng
             ELSE IF last'.fault = "none"
             THEN /\ last'.ret = n
                  /\ Len(last'.out) = n
                  /\ last'.out = nb.out
                  /\ prng' = with_gen(alg, prng, nb.st)
                  /\ ReadSplits(prng, n, last'.out, prng')
             ELSE last'.ret = 0]_vars

C3_Witness ==
  /\ last.op = "read" /\ last.from = "Active" /\ prng.ready
  /\ last.arg = 2 /\ last.ret = 2 /\ Len(last.out) = 2

(***************************************************************************)
(* C4: export on an Active instance into a destination of at least 32      *)
(* (Binding A) or 40 (Binding B) bytes, the generator not faulting,        *)
(* returns CRYPT_OK, reports exactly 32 or 40, hands out the next 32 or 40 *)
(* keystream bytes and leaves the instance where a read of that length     *)
(* leaves it.                                                              *)
(***************************************************************************)
BlobSize == IF alg = "rc4" THEN 32 ELSE 40

C4_ExportIsRead ==
  [][(Calls("export") /\ phase = "Active" /\ prng.ready
        /\ last'.arg >= BlobSize /\ last'.fault = "none")
       => LET nb == NextBytes(alg, gen(alg, prng), BlobSize)
              rd == prng_read(alg, BlobSize, prng, "none")
          IN /\ last'.err = CRYPT_OK
             /\ last'.outlen = BlobSize
             /\ last'.out = nb.out
             /\ prng' = with_gen(alg, prng, nb.st)
             /\ rd.n = BlobSize /\ rd.out = last'.out /\ rd.prng = prng']_vars

C4_Witness ==
  /\ alg = "sober128" /\ last.op = "export" /\ last.from = "Active"
  /\ last.arg = 41 /\ last.err = CRYPT_OK /\ last.outlen = 40 /\ Len(last.out) = 40

(***************************************************************************)
(* C5: export into a destination smaller than 32 (Binding A) or 40         *)
(* (Binding B) bytes returns CRYPT_BUFFER_OVERFLOW, reports exactly 32 or  *)
(* 40, writes no byte and leaves the instance, its generator included, as  *)
(* it was, so the blob a retry gets is the blob the first call would have  *)
(* got.                                                                    *)
(***************************************************************************)
C5_ExportTooSmall ==
  [][(Calls("export") /\ last'.arg < BlobSize)
       => /\ last'.err = CRYPT_BUFFER_OVERFLOW
          /\ last'.outlen = BlobSize
          /\ last'.out = <<>>
          /\ prng' = prng
          /\ gen(alg, prng') = gen(alg, prng)]_vars

C5_Witness ==
  /\ alg = "rc4" /\ last.op = "export" /\ last.from = "Active" /\ prng.ready
  /\ last.arg = 31 /\ last.err = CRYPT_BUFFER_OVERFLOW /\ last.outlen = 32

(***************************************************************************)
(* C6: import of a blob of at least 32 (Binding A) or 40 (Binding B)       *)
(* bytes, whatever the instance was before, leaves it as start followed by *)
(* add_entropy(blob) does: ready is false, pool byte j is the XOR of the   *)
(* blob bytes at the indices congruent to j modulo the capacity, and the   *)
(* write index is the blob length.                                         *)
(***************************************************************************)
\* the XOR of in[i], i = j, j + cap, j + 2 cap, ... (C indices)
RECURSIVE XorOfClass(_, _, _)
XorOfClass(in, j, cap) ==
  IF j >= Len(in) THEN 0 ELSE XorN(in[j + 1], XorOfClass(in, j + cap, cap))

PoolOf(in, cap) == Arr([k \in 1..cap |-> XorOfClass(in, k - 1, cap)])

C6_ImportIsStartAdd ==
  [][(Calls("import") /\ Len(last'.in) >= BlobSize)
       => LET in == last'.in
              st == prng_start(alg, prng).prng
          IN /\ last'.err = CRYPT_OK
             /\ ~prng'.ready
             /\ pool(alg, prng') = PoolOf(in, pool_cap(alg))
             /\ pool_idx(alg, prng') = Len(in)
             /\ prng' = prng_add_entropy(alg, in, Len(in), st, "none").prng]_vars

C6_Witness ==
  /\ alg = "sober128" /\ last.op = "import" /\ last.from = "Active"
  /\ Len(last.in) = 50 /\ last.err = CRYPT_OK
  /\ ~prng.ready /\ prng.sober128.idx = 50

(***************************************************************************)
(* C7: export/import does not continue the sequence.  In the self-test,    *)
(* once the blob dmp exported by the Active instance has been imported and *)
(* made ready, the generator is the one keyed from dmp alone through the   *)
(* binding's layout, at its initial position after the binding's discard:  *)
(* rc4_setup on the 32 bytes followed by 3072 discarded bytes for Binding  *)
(* A, key dmp[0..32) and IV dmp[32..40) at position 0 for Binding B.  It   *)
(* is not the exporter's generator after the export, and the bytes read    *)
(* from it are the derivation from dmp, not the bytes the exporter read    *)
(* after the export.  Checked under TestSpec.                              *)
(***************************************************************************)
FromBlob(a, b) ==
  IF a = "rc4"
  THEN rc4_keystream(rc4_setup(b, 32), 3072).st
  ELSE [key |-> SubSeq(b, 1, 32), iv |-> SubSeq(b, 33, 40), pos |-> 0]

\* the call after which the self-test has imported dmp and made it ready
ImportedReady ==
  /\ last.op = "ready" /\ last.err = CRYPT_OK
  /\ test.pc >= 2
  /\ prng_test(alg)[test.pc - 1].op = "import"

\* the 10 bytes compared at the end of the self-test
LastCheckpoint ==
  /\ last.op = "read" /\ last.arg = 10
  /\ test.pc = Len(prng_test(alg)) - 1

C7_ImportNotContinuation ==
  /\ ImportedReady =>
       /\ Len(dmp.blob) = export_size(alg)
       /\ gen(alg, prng) = FromBlob(alg, dmp.blob)
       /\ gen(alg, prng) # dmp.after
       /\ NextBytes(alg, gen(alg, prng), 10).out # NextBytes(alg, dmp.after, 10).out
  /\ LastCheckpoint =>
       /\ last.out = SubSeq(NextBytes(alg, FromBlob(alg, dmp.blob), 510).out, 501, 510)
       /\ last.out # SubSeq(NextBytes(alg, dmp.after, 510).out, 501, 510)

C7_Witness ==
  /\ LastCheckpoint
  /\ last.ret = 10
  /\ Len(dmp.blob) = export_size(alg)
  /\ test.enlen = 50

\* the three checkpoints of rc4_prng_test, run on all 50 bytes of en
rc4_t1 == <<224, 77, 154, 246, 168, 157, 119, 83, 174, 9>>

rc4_t2 == <<157, 60, 198, 100, 54, 182, 118, 213, 235, 147>>

rc4_t3 == <<107, 109, 245, 203, 132, 55, 143, 2, 162, 144>>

Rc4TestVectors ==
  (alg = "rc4" /\ test.enlen = 50 /\ last.op = "read" /\ last.arg = 10) =>
     last.out = CASE test.pc = 4 -> rc4_t1
                  [] test.pc = 8 -> rc4_t2
                  [] OTHER -> rc4_t3

(***************************************************************************)
(* C8: after done and before a new start or import, read returns 0 and     *)
(* hands out no byte, add_entropy does not return CRYPT_OK, and neither    *)
(* changes the instance.                                                   *)
(***************************************************************************)
C8_NothingAfterDone ==
  [][((Calls("read") \/ Calls("add_entropy")) /\ phase = "Terminated")
       => /\ prng' = prng
          /\ last'.op = "read" => (last'.ret = 0 /\ last'.out = <<>>)
          /\ last'.op = "add_entropy" => last'.err # CRYPT_OK]_vars

(***************************************************************************)
(* C9: add_entropy without input, and import of a blob shorter than 32     *)
(* (Binding A) or 40 (Binding B) bytes, return CRYPT_INVALID_ARG and leave *)
(* the instance exactly as it was, ready or not.                           *)
(***************************************************************************)
C9_RejectedBeforeMutation ==
  [][((Calls("add_entropy") /\ Len(last'.in) = 0)
        \/ (Calls("import") /\ Len(last'.in) < BlobSize))
       => (last'.err = CRYPT_INVALID_ARG /\ prng' = prng)]_vars

C9_Witness ==
  /\ alg = "rc4" /\ last.op = "import" /\ last.from = "Active" /\ Len(last.in) = 31
  /\ last.err = CRYPT_INVALID_ARG /\ prng.ready

(***************************************************************************)
(* C10: ready on an instance that is ready already returns CRYPT_OK and    *)
(* changes nothing: the generator is neither keyed again nor advanced.     *)
(***************************************************************************)
C10_ReadyIdempotent ==
  [][(Calls("ready") /\ prng.ready) => (last'.err = CRYPT_OK /\ prng' = prng)]_vars

C10_Witness ==
  /\ last.op = "ready" /\ last.from = "Active" /\ prng.ready /\ last.err = CRYPT_OK
  /\ alg = "sober128" /\ prng.sober128.s.pos > 0

(***************************************************************************)
(* C11: a ready that fails for too little entropy is not fatal.  It leaves *)
(* ready false and the pool and its write index as they were; and when     *)
(* further add_entropy calls have brought the total up to the activation   *)
(* size, the retried ready succeeds with the generator that start, one     *)
(* add_entropy of all the bytes handed in and one ready produce, keyed     *)
(* from the first min(total, 256) bytes of the folded pool.                *)
(***************************************************************************)
\* the instance after start; add_entropy(fed); ready, with no failed attempt
Unfailed(p, fed) ==
  prng_ready(alg, prng_add_entropy(alg, fed, Len(fed), prng_start(alg, p).prng, "none").prng,
             "none").prng

C11_FailedReadyRetry ==
  [][(Calls("ready") /\ ~prng.ready /\ OnlyAdds /\ last'.fault = "none")
       => IF last'.err = CRYPT_ERROR
          THEN /\ ~prng'.ready
               /\ pool(alg, prng') = pool(alg, prng)
               /\ pool_idx(alg, prng') = pool_idx(alg, prng)
               /\ hist'.failed
          ELSE (hist.failed /\ Len(hist.fed) >= 5)
                 => /\ last'.err = CRYPT_OK /\ prng'.ready
                    /\ Len(hist.fed) = accum
                    /\ prng' = Unfailed(prng, hist.fed)
                    /\ alg = "rc4" =>
                         gen(alg, prng') =
                           rc4_keystream(rc4_setup(PoolOf(hist.fed, 256), MIN(accum, 256)),
                                         3072).st]_vars

C11_Witness ==
  /\ alg = "rc4" /\ last.op = "ready" /\ last.from = "Accumulating"
  /\ hist.failed /\ accum >= 5 /\ Len(hist.fed) = accum
  /\ last.err = CRYPT_OK /\ prng.ready

(***************************************************************************)
(* Threads.  Two threads call the operations on one started instance and   *)
(* run them statement by statement; thr[t] holds the call of thread t, its *)
(* position pc and its locals.  LTC_MUTEX_LOCK waits until the lock is     *)
(* free; the lock field holds "free" or the thread that took it.           *)
(***************************************************************************)
Threads == {"t1", "t2"}

\* the calls thread t1 makes; thread t2 makes one
MaxThreadCalls == 1

CallsOf(t) == IF t = "t1" THEN MaxThreadCalls ELSE 1

LTC_MUTEX_INIT(p) == [p EXCEPT !.lock = "free"]

LTC_MUTEX_LOCK(p, t) == [p EXCEPT !.lock = t]

\* unlocking a mutex another thread holds, or nobody, is undefined: u tells
\* whether it releases the mutex all the same
LTC_MUTEX_UNLOCK(p, t, u) == IF p.lock = t \/ u THEN [p EXCEPT !.lock = "free"] ELSE p

Goto(th, pc) == [th EXCEPT !.pc = pc]

Fail(th, err) == [th EXCEPT !.err = err, !.pc = "unlock"]

\* the statements of rc4_prng_add_entropy and sober128_prng_add_entropy
add_entropy_step(a, t, th, p, u) ==
  LET cap == pool_cap(a)
      inlen == Len(th.in)
  IN CASE th.pc = "argchk" ->
            IF inlen = 0
            THEN [th |-> [th EXCEPT !.err = LTC_ARGCHK_FAIL, !.pc = "done"], prng |-> p]
            ELSE [th |-> Goto(th, "lock"), prng |-> p]
       [] th.pc = "lock" ->
            [th |-> Goto(th, "if_ready"), prng |-> LTC_MUTEX_LOCK(p, t)]
       [] th.pc = "if_ready" ->
            [th |-> Goto(th, IF p.ready THEN "keystream" ELSE "pool"), prng |-> p]
       [] th.pc = "keystream" ->
            IF th.fault = "keystream" THEN [th |-> Fail(th, FaultCode), prng |-> p]
            ELSE IF a = "rc4"
            THEN LET ks == rc4_keystream(p.rc4.s, 256)
                 IN [th |-> [th EXCEPT !.buf = xor_loop(ks.out, 256, 0, th.in, 0, inlen),
                                       !.pc = "setup"],
                     prng |-> [p EXCEPT !.rc4.s = ks.st]]
            ELSE LET ks == sober128_keystream(p.sober128.s, 40)
                 IN [th |-> [th EXCEPT !.buf = xor_loop(ks.out, 40, 0, th.in, 0, inlen),
                                       !.pc = "setup"],
                     prng |-> [p EXCEPT !.sober128.s = ks.st]]
       [] th.pc = "setup" ->
            IF th.fault = "setup" THEN [th |-> Fail(th, FaultCode), prng |-> p]
            ELSE IF a = "rc4"
            THEN [th |-> Goto(th, "discard"),
                  prng |-> [p EXCEPT !.rc4.s = rc4_setup(th.buf, 256)]]
            ELSE [th |-> Goto(th, "setiv"),
                  prng |-> [p EXCEPT !.sober128.s = sober128_setup(@, th.buf, 32)]]
       [] th.pc = "discard" ->
            LET d == rc4_drop([st |-> p.rc4.s, out |-> th.buf], 12)
            IN [th |-> [th EXCEPT !.buf = d.out, !.err = CRYPT_OK, !.pc = "unlock"],
                prng |-> [p EXCEPT !.rc4.s = d.st]]
       [] th.pc = "setiv" ->
            IF th.fault = "setiv" THEN [th |-> Fail(th, FaultCode), prng |-> p]
            ELSE [th |-> [th EXCEPT !.buf = Zeros(40), !.err = CRYPT_OK, !.pc = "unlock"],
                  prng |-> [p EXCEPT !.sober128.s =
                                        sober128_setiv(@, SubSeq(th.buf, 33, 40), 8)]]
       [] th.pc = "pool" ->
            [th |-> [th EXCEPT !.err = CRYPT_OK, !.pc = "unlock"],
             prng |-> IF a = "rc4"
                      THEN [p EXCEPT !.rc4.s.buf = xor_loop(@, 256, p.rc4.s.x, th.in, 0, inlen),
                                     !.rc4.s.x = @ + inlen]
                      ELSE [p EXCEPT !.sober128.ent =
                                        xor_loop(@, 40, p.sober128.idx, th.in, 0, inlen),
                                     !.sober128.idx = @ + inlen]]
       [] th.pc = "unlock" ->
            [th |-> Goto(th, "done"), prng |-> LTC_MUTEX_UNLOCK(p, t, u)]

\* rc4_prng_ready returning from the activation check without the unlock
ready_step_no_unlock(a, t, th, p, u) ==
  CASE th.pc = "lock" -> [th |-> Goto(th, "if_ready"), prng |-> LTC_MUTEX_LOCK(p, t)]
    [] th.pc = "if_ready" ->
         IF p.ready THEN [th |-> Fail(th, CRYPT_OK), prng |-> p]
         ELSE [th |-> Goto(th, IF a = "rc4" THEN "len" ELSE "setup"), prng |-> p]
    [] th.pc = "len" ->
         LET len == MIN(p.rc4.s.x, 256)
         IN IF len < 5 THEN [th |-> [th EXCEPT !.err = CRYPT_ERROR, !.pc = "done"], prng |-> p]
            ELSE [th |-> [th EXCEPT !.buf = SubSeq(p.rc4.s.buf, 1, len), !.pc = "setup"],
                  prng |-> p]
    [] th.pc = "setup" ->
         IF th.fault = "setup" THEN [th |-> Fail(th, FaultCode), prng |-> p]
         ELSE IF a = "rc4"
         THEN [th |-> Goto(th, "discard"),
               prng |-> [p EXCEPT !.rc4.s = rc4_setup(th.buf, Len(th.buf))]]
         ELSE [th |-> Goto(th, "setiv"),
               prng |-> [p EXCEPT !.sober128.s = sober128_setup(@, p.sober128.ent, 32)]]
    [] th.pc = "discard" ->
         LET d == rc4_drop([st |-> p.rc4.s, out |-> th.buf], 12)
         IN [th |-> [th EXCEPT !.buf = d.out, !.pc = "set_ready"],
             prng |-> [p EXCEPT !.rc4.s = d.st]]
    [] th.pc = "setiv" ->
         IF th.fault = "setiv" THEN [th |-> Fail(th, FaultCode), prng |-> p]
         ELSE [th |-> Goto(th, "zero_ent"),
               prng |-> [p EXCEPT !.sober128.s =
                                     sober128_setiv(@, SubSeq(p.sober128.ent, 33, 40), 8)]]
    [] th.pc = "zero_ent" ->
         [th |-> Goto(th, "set_ready"),
          prng |-> [p EXCEPT !.sober128.ent = Zeros(40), !.sober128.idx = 0]]
    [] th.pc = "set_ready" ->
         [th |-> Fail(th, CRYPT_OK), prng |-> [p EXCEPT !.ready = TRUE]]
    [] th.pc = "unlock" ->
         [th |-> Goto(th, "done"), prng |-> LTC_MUTEX_UNLOCK(p, t, u)]

\* the statements of rc4_prng_ready and sober128_prng_ready
ready_step(a, t, th, p, u) ==
  CASE th.pc = "lock" -> [th |-> Goto(th, "if_ready"), prng |-> LTC_MUTEX_LOCK(p, t)]
    [] th.pc = "if_ready" ->
         IF p.ready THEN [th |-> Fail(th, CRYPT_OK), prng |-> p]
         ELSE [th |-> Goto(th, IF a = "rc4" THEN "len" ELSE "setup"), prng |-> p]
    [] th.pc = "len" ->
         LET len == MIN(p.rc4.s.x, 256)
         IN IF len < 5 THEN [th |-> Fail(th, CRYPT_ERROR), prng |-> p]
            ELSE [th |-> [th EXCEPT !.buf = SubSeq(p.rc4.s.buf, 1, len), !.pc = "setup"],
                  prng |-> p]
    [] th.pc = "setup" ->
         IF th.fault = "setup" THEN [th |-> Fail(th, FaultCode), prng |-> p]
         ELSE IF a = "rc4"
         THEN [th |-> Goto(th, "discard"),
               prng |-> [p EXCEPT !.rc4.s = rc4_setup(th.buf, Len(th.buf))]]
         ELSE [th |-> Goto(th, "setiv"),
               prng |-> [p EXCEPT !.sober128.s = sober128_setup(@, p.sober128.ent, 32)]]
    [] th.pc = "discard" ->
         LET d == rc4_drop([st |-> p.rc4.s, out |-> th.buf], 12)
         IN [th |-> [th EXCEPT !.buf = d.out, !.pc = "set_ready"],
             prng |-> [p EXCEPT !.rc4.s = d.st]]
    [] th.pc = "setiv" ->
         IF th.fault = "setiv" THEN [th |-> Fail(th, FaultCode), prng |-> p]
         ELSE [th |-> Goto(th, "zero_ent"),
               prng |-> [p EXCEPT !.sober128.s =
                                     sober128_setiv(@, SubSeq(p.sober128.ent, 33, 40), 8)]]
    [] th.pc = "zero_ent" ->
         [th |-> Goto(th, "set_ready"),
          prng |-> [p EXCEPT !.sober128.ent = Zeros(40), !.sober128.idx = 0]]
    [] th.pc = "set_ready" ->
         [th |-> Fail(th, CRYPT_OK), prng |-> [p EXCEPT !.ready = TRUE]]
    [] th.pc = "unlock" ->
         [th |-> Goto(th, "done"), prng |-> LTC_MUTEX_UNLOCK(p, t, u)]

\* rc4_prng_read and sober128_prng_read drawing without taking the lock
read_step_no_lock(a, t, th, p, u, n) ==
  CASE th.pc = "entry" ->
         IF n = 0 THEN [th |-> [th EXCEPT !.ret = 0, !.pc = "done"], prng |-> p]
         ELSE [th |-> Goto(th, "keystream"), prng |-> p]
    [] th.pc = "lock" -> [th |-> Goto(th, "keystream"), prng |-> p]
    [] th.pc = "keystream" ->
         IF th.fault = "keystream"
         THEN [th |-> [th EXCEPT !.ret = 0, !.pc = "done"], prng |-> p]
         ELSE LET ks == IF a = "rc4" THEN rc4_keystream(p.rc4.s, n)
                        ELSE sober128_keystream(p.sober128.s, n)
              IN [th |-> [th EXCEPT !.out = ks.out, !.ret = n, !.pc = "done"],
                  prng |-> with_gen(a, p, ks.st)]

\* the statements of rc4_prng_read and sober128_prng_read, for n bytes
read_step(a, t, th, p, u, n) ==
  CASE th.pc = "entry" ->
         IF n = 0 THEN [th |-> [th EXCEPT !.ret = 0, !.pc = "done"], prng |-> p]
         ELSE [th |-> Goto(th, "lock"), prng |-> p]
    [] th.pc = "lock" -> [th |-> Goto(th, "keystream"), prng |-> LTC_MUTEX_LOCK(p, t)]
    [] th.pc = "keystream" ->
         IF th.fault = "keystream"
         THEN [th |-> [th EXCEPT !.ret = 0, !.pc = "unlock"], prng |-> p]
         ELSE LET ks == IF a = "rc4" THEN rc4_keystream(p.rc4.s, n)
                        ELSE sober128_keystream(p.sober128.s, n)
              IN [th |-> [th EXCEPT !.out = ks.out, !.ret = n, !.pc = "unlock"],
                  prng |-> with_gen(a, p, ks.st)]
    [] th.pc = "unlock" ->
         [th |-> Goto(th, "done"), prng |-> LTC_MUTEX_UNLOCK(p, t, u)]

\* the statements of rc4_prng_done and sober128_prng_done
done_step(a, t, th, p, u) ==
  CASE th.pc = "lock" -> [th |-> Goto(th, "clear_ready"), prng |-> LTC_MUTEX_LOCK(p, t)]
    [] th.pc = "clear_ready" ->
         [th |-> Goto(th, "cipher_done"), prng |-> [p EXCEPT !.ready = FALSE]]
    [] th.pc = "cipher_done" ->
         [th |-> Fail(th, CRYPT_OK),
          prng |-> IF a = "rc4" THEN [p EXCEPT !.rc4.s = rc4_done(@)]
                   ELSE [p EXCEPT !.sober128.s = sober128_done(@)]]
    [] th.pc = "unlock" ->
         [th |-> Goto(th, "done"), prng |-> LTC_MUTEX_UNLOCK(p, t, u)]

\* the statements of rc4_prng_export and sober128_prng_export; th.arg is *outlen
export_step(a, t, th, p, u) ==
  LET len == export_size(a)
  IN IF th.pc = "check"
     THEN IF th.arg < len
          THEN [th |-> [th EXCEPT !.outlen = len, !.err = CRYPT_BUFFER_OVERFLOW, !.pc = "done"],
                prng |-> p]
          ELSE [th |-> Goto(th, "lock"), prng |-> p]
     ELSE LET r == read_step(a, t, th, p, u, len)
          IN IF r.th.pc # "done" THEN r
             ELSE IF r.th.ret # len
             THEN [th |-> [r.th EXCEPT !.err = CRYPT_ERROR_READPRNG], prng |-> r.prng]
             ELSE [th |-> [r.th EXCEPT !.outlen = len, !.err = CRYPT_OK], prng |-> r.prng]

\* the statements of rc4_prng_import and sober128_prng_import: the argument
\* check, the statements of start, then those of add_entropy
import_step(a, t, th, p, u) ==
  CASE th.pc = "import_argchk" ->
         IF Len(th.in) < export_size(a)
         THEN [th |-> [th EXCEPT !.err = LTC_ARGCHK_FAIL, !.pc = "done"], prng |-> p]
         ELSE [th |-> Goto(th, "start_ready"), prng |-> p]
    [] th.pc = "start_ready" ->
         [th |-> Goto(th, IF a = "rc4" THEN "start_idx" ELSE "start_zero"),
          prng |-> [p EXCEPT !.ready = FALSE]]
    [] th.pc = "start_idx" ->
         IF a = "rc4"
         THEN [th |-> Goto(th, "start_zero"), prng |-> [p EXCEPT !.rc4.s.x = 0]]
         ELSE [th |-> Goto(th, "mutex_init"), prng |-> [p EXCEPT !.sober128.idx = 0]]
    [] th.pc = "start_zero" ->
         IF a = "rc4"
         THEN [th |-> Goto(th, "mutex_init"), prng |-> [p EXCEPT !.rc4.s.buf = Zeros(256)]]
         ELSE [th |-> Goto(th, "start_idx"), prng |-> [p EXCEPT !.sober128.ent = Zeros(40)]]
    [] th.pc = "mutex_init" ->
         [th |-> Goto(th, "argchk"), prng |-> LTC_MUTEX_INIT(p)]
    [] OTHER -> add_entropy_step(a, t, th, p, u)

\* one statement of the call thread t is in
thread_step(a, t, th, p, u) ==
  CASE th.op = "add_entropy" -> add_entropy_step(a, t, th, p, u)
    [] th.op = "ready" -> ready_step(a, t, th, p, u)
    [] th.op = "read" -> read_step(a, t, th, p, u, th.arg)
    [] th.op = "done" -> done_step(a, t, th, p, u)
    [] th.op = "export" -> export_step(a, t, th, p, u)
    [] th.op = "import" -> import_step(a, t, th, p, u)

\* the first statement of each operation
Entry(op) ==
  CASE op = "add_entropy" -> "argchk"
    [] op = "read" -> "entry"
    [] op = "export" -> "check"
    [] op = "import" -> "import_argchk"
    [] OTHER -> "lock"

\* the statements that read or write the instance or release its lock
SharedPcs ==
  {"if_ready", "keystream", "setup", "discard", "setiv", "pool", "len", "zero_ent",
   "set_ready", "clear_ready", "cipher_done", "unlock",
   "start_ready", "start_idx", "start_zero", "mutex_init"}

\* what the caller of an operation gets back
Res(err, ret, out, outlen) == [err |-> err, ret |-> ret, out |-> out, outlen |-> outlen]

ResOf(th) == Res(th.err, th.ret, th.out, th.outlen)

\* the call of th run in one piece on the instance l
Atomic(a, th, l) ==
  CASE th.op = "add_entropy" ->
         LET r == prng_add_entropy(a, th.in, Len(th.in), l, th.fault)
         IN [prng |-> r.prng, res |-> Res(r.err, 0, <<>>, 0)]
    [] th.op = "ready" ->
         LET r == prng_ready(a, l, th.fault)
         IN [prng |-> r.prng, res |-> Res(r.err, 0, <<>>, 0)]
    [] th.op = "read" ->
         LET r == prng_read(a, th.arg, l, th.fault)
         IN [prng |-> r.prng, res |-> Res(CRYPT_OK, r.n, r.out, 0)]
    [] th.op = "done" ->
         LET r == prng_done(a, l)
         IN [prng |-> r.prng, res |-> Res(r.err, 0, <<>>, 0)]
    [] th.op = "export" ->
         LET r == prng_export(a, th.arg, l, th.fault)
         IN [prng |-> r.prng, res |-> Res(r.err, Len(r.out), r.out, r.outlen)]
    [] th.op = "import" ->
         LET r == prng_import(a, th.in, Len(th.in), l)
         IN [prng |-> r.prng, res |-> Res(r.err, 0, <<>>, 0)]

\* a thread that is in no call
Idle ==
  [op |-> "none", pc |-> "idle", in |-> <<>>, arg |-> 0, fault |-> "none", buf |-> <<>>,
   err |-> CRYPT_OK, ret |-> 0, out |-> <<>>, outlen |-> 0,
   exp |-> <<>>, placed |-> FALSE, bad |-> FALSE, other |-> FALSE, imports |-> FALSE,
   calls |-> 0]

ACall(op, in, arg, f) == [op |-> op, in |-> in, arg |-> arg, fault |-> f]

\* the calls a thread may make
Menu(a) ==
  LET size == export_size(a)
  IN {ACall("add_entropy", EnBytes(n), 0, "none") : n \in {0, 5}}
       \cup {ACall("ready", <<>>, 0, "none")}
       \cup {ACall("read", <<>>, n, "none") : n \in {0, 2}}
       \cup {ACall("done", <<>>, 0, "none")}
       \cup {ACall("export", <<>>, n, "none") : n \in {size - 1, size}}
       \cup {ACall("import", EnBytes(n), 0, "none") : n \in {size - 1, size}}

\* what the cipher call at the statement pc may do: succeed, or fail
FaultsAt(a, pc) == IF pc \in FaultsOf(a) THEN {"none", pc} ELSE {"none"}

\* a started instance: 4 or 5 bytes accumulated, or made ready on the 5
Started(a, k) ==
  LET s0 == prng_start(a, Uninit(a, 0)).prng
      n == IF k = "short" THEN 4 ELSE 5
      s1 == prng_add_entropy(a, EnBytes(n), n, s0, "none").prng
  IN IF k = "active" THEN prng_ready(a, s1, "none").prng ELSE s1

ThrInit ==
  /\ alg \in Algs
  /\ \E k \in {"short", "enough", "active"} :
       /\ prng = Started(alg, k)
       /\ phase = IF k = "active" THEN "Active" ELSE "Accumulating"
  /\ lin = prng
  /\ twin = <<>>
  /\ thr = [t \in Threads |-> Idle]
  /\ last = NoCall
  /\ accum = -1
  /\ hist = NoHist
  /\ dmp = NoDump
  /\ cnt = [adds |-> 0, rekeys |-> 0, draw |-> 0, exports |-> 0, starts |-> 0,
            imports |-> 0, dones |-> 0, calls |-> 0]
  /\ test = [pc |-> 0, enlen |-> 0]

\* the call returns before it takes the lock
ReturnsEarly(a, c) ==
  \/ c.op = "add_entropy" /\ Len(c.in) = 0
  \/ c.op = "read" /\ c.arg = 0
  \/ c.op = "export" /\ c.arg < export_size(a)
  \/ c.op = "import" /\ Len(c.in) < export_size(a)

\* a thread calls an operation and runs the checks it makes of its arguments
ThrCall ==
  /\ \E t \in Threads, c \in Menu(alg) :
       /\ thr[t].pc \in {"idle", "done"}
       /\ thr[t].calls < CallsOf(t)
       /\ LET th0 == [Idle EXCEPT !.op = c.op, !.in = c.in, !.arg = c.arg, !.fault = c.fault,
                                 !.pc = Entry(c.op),
                                 !.outlen = IF c.op = "export" THEN c.arg ELSE 0,
                                 !.bad = thr[t].bad,
                                 !.other = thr[t].other
                                             \/ c.op \notin {"read", "add_entropy", "ready"},
                                 !.imports = thr[t].imports \/ c.op = "import",
                                 !.calls = thr[t].calls + 1]
              th == IF th0.pc = "lock" THEN th0 ELSE thread_step(alg, t, th0, prng, TRUE).th
          IN thr' = [thr EXCEPT ![t] =
                       [th EXCEPT !.exp = IF ReturnsEarly(alg, c)
                                          THEN Atomic(alg, th, lin).res ELSE <<>>,
                                  !.placed = ReturnsEarly(alg, c)]]
  /\ UNCHANGED <<twin, alg, prng, lin, phase, last, accum, hist, dmp, cnt, test>>

\* thread t runs the next statement of its call, when it can; the call
\* takes its place in the serial order when its last statement before the
\* unlock has run
ThrStep(t) ==
  /\ thr[t].pc \notin {"idle", "done"}
  /\ thr[t].pc = "lock" => prng.lock = "free"
  /\ \E u \in IF thr[t].pc = "unlock" /\ prng.lock # t THEN BOOLEAN ELSE {TRUE},
        f \in FaultsAt(alg, thr[t].pc) :
       \E r \in {thread_step(alg, t, [thr[t] EXCEPT !.fault = IF @ = "none" THEN f ELSE @],
                              prng, u)} :
         /\ prng' = r.prng
         /\ \E a \in IF ~thr[t].placed /\ r.th.pc \in {"unlock", "done"}
                     THEN {Atomic(alg, r.th, lin)}
                     ELSE {[prng |-> lin, res |-> thr[t].exp]} :
              /\ lin' = a.prng
              /\ thr' = [thr EXCEPT ![t] =
                           [r.th EXCEPT !.exp = a.res,
                                        !.placed = @ \/ r.th.pc \in {"unlock", "done"},
                                        !.bad = @ \/ (thr[t].pc \in SharedPcs
                                                        /\ prng.lock # t)]]
  /\ UNCHANGED <<twin, alg, phase, last, accum, hist, dmp, cnt, test>>

ThrAddEntropy == \E t \in Threads : thr[t].op = "add_entropy" /\ ThrStep(t)

ThrReady == \E t \in Threads : thr[t].op = "ready" /\ ThrStep(t)

ThrRead == \E t \in Threads : thr[t].op = "read" /\ ThrStep(t)

ThrDone == \E t \in Threads : thr[t].op = "done" /\ ThrStep(t)

ThrExport == \E t \in Threads : thr[t].op = "export" /\ ThrStep(t)

ThrImport == \E t \in Threads : thr[t].op = "import" /\ ThrStep(t)

ThrNext ==
  \/ ThrCall \/ ThrAddEntropy \/ ThrReady \/ ThrRead
  \/ ThrDone \/ ThrExport \/ ThrImport

ThreadSpec == ThrInit /\ [][ThrNext]_vars

(***************************************************************************)
(* C12: every operation but start holds the lock for its whole body: no    *)
(* thread reads or writes ready, the pool, the write index or the          *)
(* generator, or touches the lock, at a statement where it does not hold   *)
(* the lock.  Checked under ThreadSpec.                                    *)
(***************************************************************************)
C12_BodyUnderLock == \A t \in Threads : ~thr[t].bad

\* as long as no thread has called import, the statements run under the lock
UnderLockButImport ==
  (\A t \in Threads : ~thr[t].imports) => \A t \in Threads : ~thr[t].bad

(***************************************************************************)
(* C13: read, add_entropy and ready called concurrently on one started     *)
(* instance are linearizable: as long as the threads have called nothing   *)
(* else, the instance is, whenever the lock is free, the one the calls     *)
(* leave when run one after the other in the order they took the lock,     *)
(* and each returned call returns what it returns in that serial run.      *)
(* Checked under ThreadSpec.                                               *)
(***************************************************************************)
C13_Linearizable ==
  (\A t \in Threads : ~thr[t].other)
    => /\ prng.lock = "free" => prng = lin
       /\ \A t \in Threads : thr[t].pc = "done" => ResOf(thr[t]) = thr[t].exp

C13_Witness ==
  /\ alg = "rc4" /\ prng.ready /\ prng.lock = "free"
  /\ \A t \in Threads : thr[t].pc = "done" /\ ~thr[t].other
  /\ \E t \in Threads : thr[t].op = "read" /\ thr[t].ret = 2 /\ Len(thr[t].out) = 2
  /\ \E t \in Threads : thr[t].op = "add_entropy" /\ thr[t].err = CRYPT_OK
                          /\ Len(thr[t].buf) = 256

(***************************************************************************)
(* C14: the lock is released on every exit path: a thread that has         *)
(* returned from add_entropy, ready, read, done, export or import, with    *)
(* success or with any error, does not hold the lock, the lock is held     *)
(* only by a thread inside a call, and when no thread is inside a call the *)
(* lock is free.  Checked under ThreadSpec.                                *)
(***************************************************************************)
C14_LockReleased ==
  /\ \A t \in Threads : thr[t].pc \in {"idle", "done"} => prng.lock # t
  /\ prng.lock \in Threads \cup {"free"}
  /\ (\A t \in Threads : thr[t].pc \in {"idle", "done"}) => prng.lock = "free"

C14_Witness ==
  /\ \A t \in Threads : thr[t].pc = "done"
  /\ prng.lock = "free"
  /\ \E t \in Threads : thr[t].op = "ready" /\ thr[t].err = CRYPT_ERROR
  /\ \E t \in Threads : thr[t].op = "read" /\ thr[t].fault = "keystream" /\ thr[t].ret = 0

(***************************************************************************)
(* C16: done clears the instance in whichever state it is called: ready is *)
(* false afterwards, the generator is destroyed, and the pool holds no     *)
(* byte handed to add_entropy and the write index is 0, also when the      *)
(* instance was never made ready.                                          *)
(***************************************************************************)
C16_DoneClears ==
  [][Calls("done")
       => /\ ~prng'.ready
          /\ gen(alg, prng') = IF alg = "rc4" THEN rc4_done(gen(alg, prng))
                               ELSE sober128_done(gen(alg, prng))
          /\ pool(alg, prng') = Zeros(pool_cap(alg))
          /\ pool_idx(alg, prng') = 0]_vars

\* Binding A is cleared by done, the pool being the cipher state
Rc4DoneClears ==
  [][(Calls("done") /\ alg = "rc4")
       => /\ ~prng'.ready
          /\ prng'.rc4.s = rc4_done(prng.rc4.s)
          /\ pool(alg, prng') = Zeros(256)
          /\ pool_idx(alg, prng') = 0]_vars

\* Binding B is cleared by done once it was made ready
SoberDoneClearsActive ==
  [][(Calls("done") /\ alg = "sober128" /\ phase = "Active")
       => /\ ~prng'.ready
          /\ prng'.sober128.s = sober128_done(prng.sober128.s)
          /\ pool(alg, prng') = Zeros(40)
          /\ pool_idx(alg, prng') = 0]_vars

(***************************************************************************)
(* C18: rekey.  add_entropy with input on a ready instance, no cipher call *)
(* failing, draws capacity bytes K from the generator, mixes the input     *)
(* into them (M[j] = K[j] ^ in[j] ^ in[j + capacity] ^ ...), installs the  *)
(* generator derived from M (Binding A: key M[0..256), then the discard;   *)
(* Binding B: key M[0..32), then IV M[32..40)), has zeroed the mixing      *)
(* buffer when it returns, and leaves ready true and the pool alone.       *)
(***************************************************************************)
MixOf(K, in, cap) == Arr([j \in 1..cap |-> XorN(K[j], XorOfClass(in, j - 1, cap))])

\* the rekey, with the mixing buffer zeroed at the return (scrub) or, for
\* Binding A, left holding the last block of the discard
RekeyDerives(scrub) ==
  (Calls("add_entropy") /\ prng.ready /\ Len(last'.in) > 0 /\ last'.fault = "none")
    => LET cap == pool_cap(alg)
           K == NextBytes(alg, gen(alg, prng), cap)
           M == MixOf(K.out, last'.in, cap)
       IN /\ last'.err = CRYPT_OK
          /\ prng'.ready
          /\ IF alg = "rc4"
             THEN LET d == rc4_drop([st |-> rc4_setup(M, 256), out |-> M], 12)
                  IN /\ prng' = with_gen(alg, prng, d.st)
                     /\ last'.buf = IF scrub THEN Zeros(256) ELSE d.out
             ELSE /\ prng' = with_gen(alg, prng,
                               sober128_setiv(sober128_setup(K.st, SubSeq(M, 1, 32), 32),
                                              SubSeq(M, 33, 40), 8))
                  /\ last'.buf = Zeros(40)

C18_RekeyDerivation == [][RekeyDerives(TRUE)]_vars

\* the rekey as the code does it
RekeyLeavesKeystream == [][RekeyDerives(FALSE)]_vars

(***************************************************************************)
(* C19: Binding A, discard.  A successful ready keys the generator with    *)
(* the first min(accumulated count, 256) pool bytes, a successful rekey    *)
(* with the 256 mixed bytes, and when either returns exactly 3072 bytes of *)
(* the newly keyed generator have been drawn and thrown away: the          *)
(* generator is the new one after 3072 bytes, and the first byte a read or *)
(* an export then returns is the byte at offset 3072 of its keystream.     *)
(***************************************************************************)
Discard == 3072

\* the instance p holds the generator g0 with Discard bytes drawn, and hands
\* out byte Discard of its keystream next
Discarded(p, g0) ==
  \E g \in {rc4_keystream(g0, Discard).st} :
    \E b \in {rc4_keystream(g, 1).out} :
      /\ p.rc4.s = g
      /\ SubSeq(rc4_prng_read(1, p, "none").out, 1, 1) = b
      /\ SubSeq(rc4_prng_export(32, p, "none").out, 1, 1) = b

C19_Rc4Discard ==
  [][/\ (Calls("ready") /\ alg = "rc4" /\ ~prng.ready /\ last'.err = CRYPT_OK)
          => LET len == MIN(prng.rc4.s.x, 256)
             IN /\ prng'.ready
                /\ Discarded(prng', rc4_setup(SubSeq(prng.rc4.s.buf, 1, len), len))
     /\ (Calls("add_entropy") /\ alg = "rc4" /\ prng.ready /\ last'.err = CRYPT_OK)
          => \E K \in {rc4_keystream(prng.rc4.s, 256).out} :
               \E M \in {MixOf(K, last'.in, 256)} :
                 /\ prng'.ready
                 /\ Discarded(prng', rc4_setup(M, 256))]_vars

C19_Witness ==
  /\ alg = "rc4" /\ prng.ready
  /\ last.op = "add_entropy" /\ last.from = "Active" /\ last.err = CRYPT_OK
  /\ Len(last.in) = 5 /\ Len(last.buf) = 256

(***************************************************************************)
(* C20: output only from an Active instance.  read returns bytes and       *)
(* export returns CRYPT_OK only on a ready instance: on an instance that   *)
(* was started or imported and is not ready, read returns 0 and no byte,   *)
(* and export fails with CRYPT_ERROR_READPRNG and hands out no blob.       *)
(***************************************************************************)
C20_OutputOnlyWhenActive ==
  [][/\ (Calls("read") /\ phase # "Uninitialized" /\ ~prng.ready)
          => (last'.ret = 0 /\ last'.out = <<>>)
     /\ (Calls("export") /\ phase # "Uninitialized" /\ ~prng.ready
           /\ last'.arg >= BlobSize)
          => (last'.err = CRYPT_ERROR_READPRNG /\ last'.out = <<>>)]_vars

\* what read hands out on a started instance that is not ready (Binding A):
\* the keystream of the raw pool taken as the cipher state
Rc4ReadsRawPool ==
  [][(Calls("read") /\ alg = "rc4" /\ phase # "Uninitialized" /\ ~prng.ready
        /\ last'.fault = "none" /\ last'.arg > 0)
       => (last'.ret = last'.arg
             /\ last'.out = rc4_keystream(prng.rc4.s, last'.arg).out)]_vars

(***************************************************************************)
(* Two runs.  The same calls with the same entropy are made on two         *)
(* separate instances, prng and twin.prng, whose memory held different     *)
(* bytes before start; last and twin.last are what the last call returned  *)
(* in each run.  twin.early tells that a read or an export was called on   *)
(* an instance that was not ready.                                         *)
(***************************************************************************)
\* the calls made on each instance after start
MaxTwinCalls == 3

TwinLens(a) == IF a = "rc4" THEN {5} ELSE {40}

\* both runs return r1 and r2 from the call c and leave the instances p1, p2
TwinStep(c, p1, r1, p2, r2, ph) ==
  /\ prng' = p1
  /\ last' = [c EXCEPT !.err = r1.err, !.ret = r1.ret, !.out = r1.out, !.outlen = r1.outlen]
  /\ twin' = [prng |-> p2,
              last |-> [c EXCEPT !.err = r2.err, !.ret = r2.ret, !.out = r2.out,
                                 !.outlen = r2.outlen],
              early |-> IF c.op = "start" THEN FALSE
                        ELSE twin.early \/ (c.op \in {"read", "export"} /\ ~prng.ready)]
  /\ phase' = ph
  /\ cnt' = [cnt EXCEPT !.calls = IF c.op = "start" THEN 0 ELSE @ + 1]
  /\ UNCHANGED <<alg, accum, hist, dmp, test, thr, lin>>

TwinInit ==
  /\ alg \in Algs
  /\ prng = Uninit(alg, 0)
  /\ \E g \in 0..MaxGarbage : twin = [prng |-> Uninit(alg, g), last |-> NoCall, early |-> FALSE]
  /\ phase = "Uninitialized"
  /\ last = NoCall
  /\ accum = -1
  /\ hist = NoHist
  /\ dmp = NoDump
  /\ cnt = [adds |-> 0, rekeys |-> 0, draw |-> 0, exports |-> 0, starts |-> 0,
            imports |-> 0, dones |-> 0, calls |-> 0]
  /\ test = [pc |-> 0, enlen |-> 0]
  /\ thr = <<>>
  /\ lin = <<>>

TwinMay == phase # "Uninitialized" /\ cnt.calls < MaxTwinCalls

TwinStart ==
  /\ phase = "Uninitialized"
  /\ \E r1 \in {prng_start(alg, prng)}, r2 \in {prng_start(alg, twin.prng)} :
       TwinStep([NoCall EXCEPT !.op = "start", !.from = phase],
                r1.prng, Res(r1.err, 0, <<>>, 0), r2.prng, Res(r2.err, 0, <<>>, 0),
                "Accumulating")

TwinAddEntropy ==
  /\ TwinMay
  /\ \E in \in Entropy(TwinLens(alg)) :
       \E r1 \in {prng_add_entropy(alg, in, Len(in), prng, "none")},
          r2 \in {prng_add_entropy(alg, in, Len(in), twin.prng, "none")} :
         TwinStep([NoCall EXCEPT !.op = "add_entropy", !.from = phase, !.in = in],
                  r1.prng, Res(r1.err, 0, <<>>, 0), r2.prng, Res(r2.err, 0, <<>>, 0), phase)

TwinReady ==
  /\ TwinMay
  /\ \E r1 \in {prng_ready(alg, prng, "none")}, r2 \in {prng_ready(alg, twin.prng, "none")} :
       TwinStep([NoCall EXCEPT !.op = "ready", !.from = phase],
                r1.prng, Res(r1.err, 0, <<>>, 0), r2.prng, Res(r2.err, 0, <<>>, 0),
                IF r1.prng.ready THEN "Active" ELSE phase)

TwinRead ==
  /\ TwinMay
  /\ \E n \in 1..MaxDraw :
       \E r1 \in {prng_read(alg, n, prng, "none")},
          r2 \in {prng_read(alg, n, twin.prng, "none")} :
         TwinStep([NoCall EXCEPT !.op = "read", !.from = phase, !.arg = n],
                  r1.prng, Res(CRYPT_OK, r1.n, r1.out, 0),
                  r2.prng, Res(CRYPT_OK, r2.n, r2.out, 0), phase)

TwinExport ==
  /\ TwinMay
  /\ \E r1 \in {prng_export(alg, export_size(alg), prng, "none")},
        r2 \in {prng_export(alg, export_size(alg), twin.prng, "none")} :
       TwinStep([NoCall EXCEPT !.op = "export", !.from = phase, !.arg = export_size(alg)],
                r1.prng, Res(r1.err, 0, r1.out, r1.outlen),
                r2.prng, Res(r2.err, 0, r2.out, r2.outlen), phase)

TwinDone ==
  /\ TwinMay
  /\ \E r1 \in {prng_done(alg, prng)}, r2 \in {prng_done(alg, twin.prng)} :
       TwinStep([NoCall EXCEPT !.op = "done", !.from = phase],
                r1.prng, Res(r1.err, 0, <<>>, 0), r2.prng, Res(r2.err, 0, <<>>, 0),
                "Terminated")

TwinImport ==
  /\ TwinMay
  /\ \E in \in Entropy({export_size(alg)}) :
       \E r1 \in {prng_import(alg, in, Len(in), prng)},
          r2 \in {prng_import(alg, in, Len(in), twin.prng)} :
         TwinStep([NoCall EXCEPT !.op = "import", !.from = phase, !.in = in],
                  r1.prng, Res(r1.err, 0, <<>>, 0), r2.prng, Res(r2.err, 0, <<>>, 0),
                  "Accumulating")

TwinNext ==
  \/ TwinStart \/ TwinAddEntropy \/ TwinReady \/ TwinRead
  \/ TwinExport \/ TwinDone \/ TwinImport

TwinSpec == TwinInit /\ [][TwinNext]_vars

(***************************************************************************)
(* C15: determinism.  For the same entropy and the same calls, starting    *)
(* with start, every read and every export returns the same bytes and the  *)
(* same codes in both runs, whatever the memory of the instances held      *)
(* before, also when read is called before ready.  Checked under TwinSpec. *)
(***************************************************************************)
C15_Deterministic ==
  last.op \in {"read", "export"}
    => /\ last.ret = twin.last.ret
       /\ last.out = twin.last.out
       /\ last.err = twin.last.err
       /\ last.outlen = twin.last.outlen

\* the runs agree as long as read and export are called on ready instances
DeterministicWhenReady == twin.early \/ last = twin.last

(***************************************************************************)
(* Accumulating.  A started instance is fed by add_entropy calls only,     *)
(* with inputs shorter than, as long as and several times longer than the  *)
(* pool.                                                                   *)
(***************************************************************************)
\* the add_entropy calls made on the instance
MaxPoolAdds == 2

PoolLens(a) ==
  LET cap == pool_cap(a)
  IN {1, cap - 1, cap, cap + 1, 2 * cap + 3, 3 * cap}

PoolInit ==
  /\ alg \in Algs
  /\ \E g \in 0..MaxGarbage : prng = prng_start(alg, Uninit(alg, g)).prng
  /\ phase = "Accumulating"
  /\ last = NoCall
  /\ accum = 0
  /\ hist = NoHist
  /\ dmp = NoDump
  /\ cnt = [adds |-> 0, rekeys |-> 0, draw |-> 0, exports |-> 0, starts |-> 0,
            imports |-> 0, dones |-> 0, calls |-> 0]
  /\ test = [pc |-> 0, enlen |-> 0]
  /\ thr = <<>>
  /\ lin = <<>>
  /\ twin = <<>>

PoolAddEntropy ==
  /\ cnt.adds < MaxPoolAdds
  /\ \E in \in Entropy(PoolLens(alg)) :
       \E r \in {prng_add_entropy(alg, in, Len(in), prng, "none")} :
         /\ prng' = r.prng
         /\ last' = [NoCall EXCEPT !.op = "add_entropy", !.from = phase, !.in = in,
                                   !.err = r.err, !.buf = r.buf]
         /\ accum' = accum + Len(in)
  /\ cnt' = [cnt EXCEPT !.adds = @ + 1, !.calls = @ + 1]
  /\ UNCHANGED <<alg, phase, hist, dmp, test, thr, lin, twin>>

PoolNext == PoolAddEntropy

PoolSpec == PoolInit /\ [][PoolNext]_vars

(***************************************************************************)
(* C17: pool bound.  While accumulating, add_entropy XORs byte i of its    *)
(* input into pool[(write index + i) mod capacity], capacity 256 for       *)
(* Binding A and 40 for Binding B, for inputs of every length and also     *)
(* once the index has passed the capacity: the pool keeps its capacity,    *)
(* byte k of it gets exactly the input bytes whose position falls on k,    *)
(* the index grows by the input length, and nothing else in the instance   *)
(* changes.  Checked under PoolSpec.                                       *)
(***************************************************************************)
\* the XOR of the bytes of in that land on pool byte k when writing starts at idx
LandsOn(in, idx, k, cap) == XorOfClass(in, (k - idx) % cap, cap)

C17_PoolBound ==
  [][LET cap == pool_cap(alg)
         in == last'.in
         idx == pool_idx(alg, prng)
     IN /\ last'.err = CRYPT_OK
        /\ cap = IF alg = "rc4" THEN 256 ELSE 40
        /\ Len(pool(alg, prng')) = cap
        /\ \A k \in 0..(cap - 1) :
             pool(alg, prng')[k + 1] = XorN(pool(alg, prng)[k + 1], LandsOn(in, idx, k, cap))
        /\ pool_idx(alg, prng') = idx + Len(in)
        /\ prng'.ready = prng.ready /\ prng'.lock = prng.lock
        /\ IF alg = "rc4" THEN prng'.rc4.s.y = prng.rc4.s.y
           ELSE prng'.sober128.s = prng.sober128.s]_vars

C17_Witness ==
  /\ alg = "rc4" /\ ~prng.ready /\ cnt.adds = 2
  /\ last.op = "add_entropy" /\ last.err = CRYPT_OK
  /\ Len(last.in) = 2 * 256 + 3
  /\ pool_idx(alg, prng) = 3 * 256 + 2 * 256 + 3

====
